---- MODULE Spec2Model ----
(***************************************************************************)
(* A model of psf-rs (src/src/lib.rs): Font::load, Font::glyph_index and   *)
(* Font::display_glyph over PSF2 byte buffers.                             *)
(*                                                                         *)
(* Bytes are integers 0..255.  A byte buffer is a record: the sequence     *)
(* `bytes` followed by `zeros` bytes of value 0, so that a buffer of       *)
(* FILE_ZIZE bytes is a small value.  A panic of the program is an outcome *)
(* record with ok = FALSE.  Rust's u32                                     *)
(* arithmetic panics on overflow when the build has overflow checks        *)
(* (debug) and wraps otherwise (release); the variable overflow_checks     *)
(* says which build runs.                                                  *)
(***************************************************************************)
EXTENDS Integers, Sequences, FiniteSets, TLC

VARIABLES raw, overflow_checks, pc, font, last

vars == <<raw, overflow_checks, pc, font, last>>

------------------------------------------------------------------------------
(* Constants of the program *)

MAGIC == <<114, 181, 74, 134>>

FILE_ZIZE == 16384

HEADER_LEN == 32

DATA_LEN == FILE_ZIZE - HEADER_LEN

(* The largest integer the model holds.  The u32 values of the inputs lie   *)
(* below it; a u32 result at or above it is kept as SAT, and every use of  *)
(* such a result compares it with an array length far below.               *)
SAT == 65536 * 32767 + 65535

------------------------------------------------------------------------------
(* Helpers over byte sequences *)

Zeros(n) == [i \in 1..n |-> 0]

Buf(bytes, zeros) == [bytes |-> bytes, zeros |-> zeros]

BLen(b) == Len(b.bytes) + b.zeros

(* b[i], i counted from 0 *)
BAt(b, i) == IF i < Len(b.bytes) THEN b.bytes[i + 1] ELSE 0

(* b[from..to] as a sequence, for from <= to <= BLen(b) *)
BSub(b, from, to) == [k \in 1..(to - from) |-> BAt(b, from + k - 1)]

Min(a, b) == IF a < b THEN a ELSE b

Pow2(k) == 2 ^ k

as_u32_le(array) ==
    array[1] + array[2] * 256 + array[3] * 65536 + array[4] * 16777216

Flags_parse(bytes) == [unicode |-> bytes[1] = 1]

Ok(v) == [ok |-> TRUE, val |-> v]

Panic(why) == [ok |-> FALSE, val |-> why]

LE(n) == <<n % 256, (n \div 256) % 256, (n \div 65536) % 256, (n \div 16777216) % 256>>

(* The product of two u32 values by their bytes: column k of the long     *)
(* multiplication, the carries, the four low bytes of the product and      *)
(* whether anything lies above them.                                       *)
Column(la, lb, k) ==
    IF k = 0 THEN la[1] * lb[1]
    ELSE IF k = 1 THEN la[1] * lb[2] + la[2] * lb[1]
    ELSE IF k = 2 THEN la[1] * lb[3] + la[2] * lb[2] + la[3] * lb[1]
    ELSE IF k = 3 THEN la[1] * lb[4] + la[2] * lb[3] + la[3] * lb[2] + la[4] * lb[1]
    ELSE IF k = 4 THEN la[2] * lb[4] + la[3] * lb[3] + la[4] * lb[2]
    ELSE IF k = 5 THEN la[3] * lb[4] + la[4] * lb[3]
    ELSE la[4] * lb[4]

RECURSIVE Carried(_, _, _)
Carried(la, lb, k) ==
    Column(la, lb, k) + (IF k = 0 THEN 0 ELSE Carried(la, lb, k - 1) \div 256)

MulBytes(a, b) ==
    [low      |-> [k \in 1..4 |-> Carried(LE(a), LE(b), k - 1) % 256],
     overflow |-> \/ Carried(LE(a), LE(b), 4) > 0
                  \/ Column(LE(a), LE(b), 5) > 0
                  \/ Column(LE(a), LE(b), 6) > 0]

Saturated(bytes) == IF bytes[4] >= 128 THEN SAT ELSE as_u32_le(bytes)

(* u32 multiplication and addition: panic (debug) or wrap (release). *)
MulU32(a, b, checks) ==
    LET m == MulBytes(a, b) IN
    IF m.overflow /\ checks THEN Panic("attempt to multiply with overflow")
    ELSE Ok(Saturated(m.low))

(* char + 1: the characters of the model lie below SAT, where the u32     *)
(* addition does not overflow.                                             *)
Succ32(a) == IF a >= SAT THEN SAT ELSE a + 1

------------------------------------------------------------------------------
(* Font::load *)

NoFont == [loaded |-> FALSE]

MagicMismatch_never(header) == FALSE

MagicMismatch(header) == header.magic # MAGIC

(* The header as the struct literal of load reads it. *)
ParseHeader(r) ==
    [magic        |-> <<BAt(r, 0), BAt(r, 1), BAt(r, 2), BAt(r, 3)>>,
     version      |-> as_u32_le(BSub(r, 4, 8)),
     size         |-> as_u32_le(BSub(r, 8, 12)),
     flags        |-> Flags_parse(BSub(r, 12, 16)),
     length       |-> as_u32_le(BSub(r, 16, 20)),
     glyph_size   |-> as_u32_le(BSub(r, 20, 24)),
     glyph_height |-> as_u32_le(BSub(r, 24, 28)),
     glyph_width  |-> as_u32_le(BSub(r, 28, 32))]

(* data[size..] of the FILE_ZIZE array that holds r and then zeros, for    *)
(* size <= FILE_ZIZE and BLen(r) <= FILE_ZIZE.                             *)
DataFrom(r, size) ==
    LET kept == SubSeq(r.bytes, size + 1, Len(r.bytes)) IN
    Buf(kept, (FILE_ZIZE - size) - Len(kept))

load(r) ==
    IF BLen(r) < 12 THEN Panic("range end index 12 out of range")
    ELSE IF BLen(r) > FILE_ZIZE THEN Panic("range end index out of range for data")
    ELSE IF BLen(r) < HEADER_LEN THEN Panic("header index out of range")
    ELSE LET header == ParseHeader(r) IN
         IF header.size > FILE_ZIZE THEN Panic("range start index out of range")
         ELSE IF FILE_ZIZE - header.size # DATA_LEN
              THEN Panic("called Result::unwrap() on an Err value")
         ELSE IF MagicMismatch(header)
              THEN Panic("header magic does not match, is this a psf2 font?")
         ELSE Ok([loaded |-> TRUE,
                  header |-> header,
                  data   |-> DataFrom(r, header.size),
                  size   |-> BLen(r)])

(* &self.data[from..to] *)
DataSlice(f, from, to) ==
    IF from > to THEN Panic("slice index starts after its end")
    ELSE IF to > BLen(f.data) THEN Panic("range end index out of range for slice")
    ELSE Ok(BSub(f.data, from, to))

------------------------------------------------------------------------------
(* Font::glyph_index *)

(* char::from_u32: a Unicode scalar value. *)
IsScalar(c) == c >= 0 /\ c <= 1114111 /\ ~(c >= 55296 /\ c <= 57343)

(* char::encode_utf8: the bytes of the encoding. *)
encode_utf8(c) ==
    IF c < 128 THEN <<c>>
    ELSE IF c < 2048 THEN <<192 + (c \div 64), 128 + (c % 64)>>
    ELSE IF c < 65536
         THEN <<224 + (c \div 4096), 128 + ((c \div 64) % 64), 128 + (c % 64)>>
    ELSE <<240 + (c \div 262144), 128 + ((c \div 4096) % 64),
           128 + ((c \div 64) % 64), 128 + (c % 64)>>

(* let mut utf8 = [0; 4]; encode_utf8(&mut utf8) *)
Utf8Buf(c) == encode_utf8(c) \o Zeros(4 - Len(encode_utf8(c)))

(* len: the number of non-zero bytes of the buffer. *)
Utf8Len(buf) == Cardinality({k \in 1..4 : buf[k] # 0})

(* slice::split(|x| x == &0xff): the chunks between the 0xff bytes; one    *)
(* more chunk than there are 0xff bytes, an empty slice gives one chunk.   *)
SplitFF(t) ==
    LET ffs    == {p \in 1..Len(t) : t[p] = 255}
        n      == Cardinality(ffs)
        nth(k) == IF k = 0 THEN 0
                  ELSE IF k = n + 1 THEN Len(t) + 1
                  ELSE CHOOSE p \in ffs : Cardinality({q \in ffs : q < p}) = k - 1
    IN  [k \in 1..(n + 1) |-> SubSeq(t, nth(k - 1) + 1, nth(k) - 1)]

(* The inner loop: some j in 0..entry.len() with j + len <= entry.len()    *)
(* and entry[j..j + len] == utf8[..len].                                   *)
EntryMatches(entry, buf, len) ==
    \E j \in 0..(Len(entry) - 1) :
        /\ j + len <= Len(entry)
        /\ SubSeq(entry, j + 1, j + len) = SubSeq(buf, 1, len)

(* The outer loop over the enumerated chunks, from chunk i (0-based) on:   *)
(* index is overwritten by every chunk that matches.                       *)
RECURSIVE ScanEntries(_, _, _, _, _)
ScanEntries(entries, i, buf, len, index) ==
    IF i >= Len(entries) THEN index
    ELSE ScanEntries(entries, i + 1, buf, len,
                     IF EntryMatches(entries[i + 1], buf, len) THEN i ELSE index)

FastPath_and(f, char) == ~f.header.flags.unicode /\ char < 128

FastPath(f, char) == ~f.header.flags.unicode \/ char < 128

(* The end of the table slice: self.size. *)
TableEnd(f) == f.size

(* &self.data[(glyph_size * length) as usize..self.size] *)
TableSlice(f, checks) ==
    LET start == MulU32(f.header.glyph_size, f.header.length, checks) IN
    IF ~start.ok THEN start ELSE DataSlice(f, start.val, TableEnd(f))

glyph_index(f, char, checks) ==
    IF FastPath(f, char) THEN Ok(char)
    ELSE LET table == TableSlice(f, checks) IN
         IF ~table.ok THEN table
         ELSE IF ~IsScalar(char)
              THEN Panic("called Option::unwrap() on a None value")
         ELSE LET buf == Utf8Buf(char) IN
              Ok(ScanEntries(SplitFF(table.val), 0, buf, Utf8Len(buf), 63))

------------------------------------------------------------------------------
(* Font::display_glyph *)

Bit_lsb(byte, j) == (byte \div Pow2(j)) % 2

(* (byte >> (7 - j)) & 1 *)
Bit(byte, j) == (byte \div Pow2(7 - j)) % 2

(* The calls of the closure, in order: for the byte at position i of the   *)
(* slice and j in 0..8, action(bit, j, i as u8).                           *)
GlyphCalls(bytes) ==
    [k \in 1..(8 * Len(bytes)) |->
        LET i == (k - 1) \div 8
            j == (k - 1) % 8
        IN  <<Bit(bytes[i + 1], j), j, i % 256>>]

display_glyph(f, char, checks) ==
    IF char < 0 THEN Panic("invalid character index")
    ELSE LET idx == glyph_index(f, char, checks) IN
         IF ~idx.ok THEN idx
         ELSE LET from == MulU32(f.header.glyph_size, idx.val, checks)
              IN  IF ~from.ok THEN from
                  ELSE LET to == MulU32(f.header.glyph_size, Succ32(idx.val), checks) IN
                       IF ~to.ok THEN to
                       ELSE LET bytes == DataSlice(f, from.val, to.val) IN
                            IF ~bytes.ok THEN bytes
                            ELSE Ok(GlyphCalls(bytes.val))

------------------------------------------------------------------------------
(* The input buffers *)

MaxUnits == 3

MaxGlyphs == 2

MaxGlyphSize == 2

MkHeader(magic, hsize, flags, length, gsize, gheight, gwidth) ==
    magic \o LE(0) \o LE(hsize) \o LE(flags) \o LE(length) \o LE(gsize)
          \o LE(gheight) \o LE(gwidth)

(* Bitmap bytes that differ from one another and from their bit reversal. *)
BitmapByte(k) == (37 + 83 * k) % 256

Bitmap(n) == [k \in 1..n |-> BitmapByte(k)]

(* The pieces tables are built of: the encodings of U+00B5 and U+03BC, a   *)
(* three-byte sequence by its lead byte that embeds the encoding of U+00B5,*)
(* an ASCII byte and the 0xff terminator.                                  *)
Units == { <<194, 181>>, <<206, 188>>, <<226, 194, 181>>, <<65>>, <<255>> }

RECURSIVE Concat(_)
Concat(ss) == IF ss = <<>> THEN <<>> ELSE Head(ss) \o Concat(Tail(ss))

Tables == { Concat(us) : us \in UNION { [1..n -> Units] : n \in 0..MaxUnits } }

Magics == { MAGIC, <<0, 0, 0, 0>>, <<114, 181, 74, 135>> }

(* Fonts with a Unicode table after a bitmap of one one-byte glyph. *)
TableFonts ==
    { Buf(MkHeader(MAGIC, 32, 1, 1, 1, 1, 8) \o Bitmap(1) \o t, 0) : t \in Tables }

(* Fonts of several glyph counts, sizes, heights and widths, with or       *)
(* without a (short) table.                                                *)
GlyphFonts ==
    { Buf(MkHeader(MAGIC, 32, fl, n, gs, gh, gw) \o Bitmap(n * gs) \o t, 0) :
        fl \in {0, 1}, n \in 1..MaxGlyphs, gs \in 1..MaxGlyphSize,
        gh \in 1..MaxGlyphSize, gw \in {4, 8, 16}, t \in {<<>>, <<194, 181, 255>>} }

(* Buffers cut short or with a header that is off. *)
HeaderCases ==
    { Buf(SubSeq(MkHeader(m, hs, fl, d[1], d[2], d[2], 8) \o Zeros(8), 1, len), 0) :
        m \in Magics, hs \in {32, 36, 20000}, fl \in {0, 1, 3},
        d \in {<<0, 0>>, <<1, 1>>, <<4, 16>>, <<65536, 65536>>},
        len \in {0, 11, 12, 31, 32, 40} }

(* Buffers around the capacity of the font's arrays. *)
BigFonts ==
    { Buf(MkHeader(MAGIC, 32, fl, 1020, 16, 16, 8), len - 32) :
        fl \in {0, 1}, len \in {DATA_LEN, DATA_LEN + 1, FILE_ZIZE, FILE_ZIZE + 1} }

Inputs == TableFonts \cup GlyphFonts \cup HeaderCases \cup BigFonts

(* The characters asked for; -1 is a value whose conversion to u32 fails. *)
Chars == {-1, 0, 1, 63, 65, 181, 956, 55296, 1114112}

------------------------------------------------------------------------------
(* The state machine *)

NoOp == [op |-> "none", arg |-> 0, ok |-> TRUE, ret |-> 0, calls |-> <<>>]

Init ==
    /\ raw \in Inputs
    /\ overflow_checks \in BOOLEAN
    /\ pc = "start"
    /\ font = NoFont
    /\ last = NoOp

(* let font = Font::load(raw) *)
Load ==
    /\ pc = "start"
    /\ LET r == load(raw) IN
       /\ pc' = IF r.ok THEN "loaded" ELSE "panicked"
       /\ font' = IF r.ok THEN r.val ELSE NoFont
       /\ last' = [op |-> "load", arg |-> 0, ok |-> r.ok, ret |-> 0, calls |-> <<>>]
    /\ UNCHANGED <<raw, overflow_checks>>

(* font.glyph_index(c) *)
GlyphIndex ==
    /\ pc = "loaded"
    /\ \E c \in Chars \ {-1} :
         LET r == glyph_index(font, c, overflow_checks) IN
         /\ pc' = IF r.ok THEN "loaded" ELSE "panicked"
         /\ last' = [op |-> "glyph_index", arg |-> c, ok |-> r.ok,
                     ret |-> IF r.ok THEN r.val ELSE 0, calls |-> <<>>]
    /\ UNCHANGED <<raw, overflow_checks, font>>

(* font.display_glyph(c, action), action recording its calls; ret is the   *)
(* glyph index the call resolved c to, -1 when it got none.                *)
DisplayGlyph ==
    /\ pc = "loaded"
    /\ \E c \in Chars :
         LET r == display_glyph(font, c, overflow_checks)
             i == glyph_index(font, c, overflow_checks)
         IN
         /\ pc' = IF r.ok THEN "loaded" ELSE "panicked"
         /\ last' = [op |-> "display_glyph", arg |-> c, ok |-> r.ok,
                     ret |-> IF c >= 0 /\ i.ok THEN i.val ELSE -1,
                     calls |-> IF r.ok THEN r.val ELSE <<>>]
    /\ UNCHANGED <<raw, overflow_checks, font>>

Next == Load \/ GlyphIndex \/ DisplayGlyph

Spec == Init /\ [][Next]_vars

------------------------------------------------------------------------------
(* What the claims speak of, read from the input buffer *)

RawMagic == BSub(raw, 0, Min(4, BLen(raw)))

RawField(off) == as_u32_le(BSub(raw, off, off + 4))

RawUnicode == BLen(raw) >= 32 /\ BAt(raw, 12) = 1

(* a * b <= room, without forming the product *)
ProductWithin(a, b, room) == room >= 0 /\ (a = 0 \/ b <= room \div a)

(* header_size + glyph_count * glyph_byte_size <= length of the input *)
BitmapFits ==
    /\ BLen(raw) >= 32
    /\ ProductWithin(RawField(16), RawField(20), BLen(raw) - RawField(8))

(* The Unicode table of the input: the bytes after the last glyph's bitmap. *)
InputTable ==
    IF BitmapFits
    THEN BSub(raw, RawField(8) + RawField(16) * RawField(20), BLen(raw))
    ELSE <<>>

(* The length of a sequence by its lead byte. *)
LeadLen(b) ==
    LET nibble == b \div 16 IN
    IF nibble \in {12, 13} THEN 2 ELSE IF nibble = 14 THEN 3
    ELSE IF nibble = 15 THEN 4 ELSE 1

(* The back-to-back sequences of a chunk. *)
RECURSIVE ChunkSeqs(_)
ChunkSeqs(chunk) ==
    IF chunk = <<>> THEN {}
    ELSE LET n == Min(LeadLen(chunk[1]), Len(chunk)) IN
         {SubSeq(chunk, 1, n)} \cup ChunkSeqs(SubSeq(chunk, n + 1, Len(chunk)))

(* The reference mapping: the last chunk that holds enc as a sequence, 63  *)
(* when none does.                                                         *)
RefLookup(table, enc) ==
    LET chunks == SplitFF(table)
        hits   == {i \in 0..(Len(chunks) - 1) : enc \in ChunkSeqs(chunks[i + 1])}
    IN  IF hits = {} THEN 63 ELSE CHOOSE i \in hits : \A k \in hits : k <= i

(* enc occurs somewhere in the chunk, at a sequence boundary or not. *)
OccursIn(chunk, enc) ==
    \E j \in 0..(Len(chunk) - Len(enc)) :
        SubSeq(chunk, j + 1, j + Len(enc)) = enc

(* The reference sequence of calls for glyph idx: glyph_height rows of     *)
(* glyph_width pixels, rows of ceil(glyph_width / 8) bytes, most           *)
(* significant bit first.                                                  *)
RefCalls(f, idx) ==
    LET w      == f.header.glyph_width
        stride == (w + 7) \div 8
    IN  [k \in 1..(f.header.glyph_height * w) |->
            LET y == (k - 1) \div w
                x == (k - 1) % w
                byte == BAt(f.data, f.header.glyph_size * idx + y * stride + (x \div 8))
            IN  <<(byte \div Pow2(7 - (x % 8))) % 2, x, y>>]

(* The last operation was op on a font with a Unicode table and a scalar   *)
(* value of 128 or more.                                                   *)
TableLookup(op) ==
    /\ last.op = op
    /\ font.loaded /\ font.header.flags.unicode
    /\ last.arg >= 128 /\ IsScalar(last.arg)

------------------------------------------------------------------------------
(* The claims *)

(* C1: load never returns a Font for a malformed header: when the input is *)
(* shorter than 32 bytes or its first 4 bytes differ from the magic, load  *)
(* panics and no Font exists.                                              *)
C1_MalformedHeaderNeverLoads ==
    (BLen(raw) < 32 \/ RawMagic # MAGIC) =>
        /\ font = NoFont
        /\ pc = "start" \/ (pc = "panicked" /\ last.op = "load" /\ ~last.ok)

C1_Witness ==
    /\ pc = "panicked" /\ last.op = "load"
    /\ BLen(raw) >= 32 /\ RawMagic # MAGIC /\ RawField(8) = 32

(* C2 as stated: for every in-range glyph index the calls display_glyph    *)
(* makes are the reference sequence, glyph_height * glyph_width calls in   *)
(* row-major order with the bits of rows of ceil(glyph_width / 8) bytes.   *)
C2_Original ==
    (/\ last.op = "display_glyph" /\ last.ok
     /\ last.ret >= 0 /\ last.ret < font.header.length
     /\ BitmapFits)
    => last.calls = RefCalls(font, last.ret)

(* C2 amended: in a font whose glyph_width is 8 and whose glyph_height     *)
(* equals glyph_byte_size (at most 256) and whose bitmap region lies       *)
(* inside the input, display_glyph of every in-range glyph index returns   *)
(* and its calls are the reference sequence.                               *)
C2_Amended ==
    (/\ last.op = "display_glyph"
     /\ last.ret >= 0 /\ last.ret < font.header.length
     /\ BitmapFits
     /\ font.header.glyph_width = 8
     /\ font.header.glyph_height = font.header.glyph_size
     /\ font.header.glyph_height <= 256)
    => last.ok /\ last.calls = RefCalls(font, last.ret)

C2_Witness ==
    /\ last.op = "display_glyph" /\ last.ok
    /\ last.ret = 1 /\ font.header.length = 2 /\ BitmapFits
    /\ font.header.glyph_width = 8
    /\ font.header.glyph_height = 2 /\ font.header.glyph_size = 2
    /\ Len(last.calls) = 16
    /\ \E k \in 1..16 : last.calls[k][1] = 1

(* C3: in a font with a Unicode table, a codepoint of 128 or more whose    *)
(* encoding is a sequence of chunk i of the table and of no other chunk    *)
(* resolves to glyph index i.                                              *)
C3_TableHit ==
    (TableLookup("glyph_index") /\ last.ok) =>
        LET chunks == SplitFF(InputTable)
            enc    == encode_utf8(last.arg)
        IN  \A i \in 0..(Len(chunks) - 1) :
               (/\ enc \in ChunkSeqs(chunks[i + 1])
                /\ \A j \in 0..(Len(chunks) - 1) :
                      j # i => enc \notin ChunkSeqs(chunks[j + 1]))
               => last.ret = i

(* C4: glyph_index(c) returns c whenever the unicode flag of the font is   *)
(* unset or c < 128, whatever the table holds.                             *)
C4_AsciiFastPath ==
    (/\ last.op = "glyph_index"
     /\ ~font.header.flags.unicode \/ last.arg < 128)
    => last.ok /\ last.ret = last.arg

C4_Witness ==
    /\ last.op = "glyph_index" /\ last.ok
    /\ RawUnicode /\ last.arg = 65 /\ last.ret = 65
    /\ \E i \in 0..(Len(SplitFF(InputTable)) - 1) :
          i # 65 /\ OccursIn(SplitFF(InputTable)[i + 1], <<65>>)

(* C5: in a loaded font with a Unicode table, glyph_index of a codepoint   *)
(* of 128 or more whose encoding occurs in no table entry returns 63 and   *)
(* does not fail.                                                          *)
C5_UnknownGlyphFallback ==
    (/\ TableLookup("glyph_index")
     /\ BitmapFits
     /\ \A i \in 1..Len(SplitFF(InputTable)) :
           ~OccursIn(SplitFF(InputTable)[i], encode_utf8(last.arg)))
    => last.ok /\ last.ret = 63

(* C6: the glyph index glyph_index returns is below glyph_count. *)
C6_IndexInRange ==
    (last.op = "glyph_index" /\ last.ok) =>
        last.ret >= 0 /\ last.ret < font.header.length

(* C7: load returns no Font for an input with a valid magic whose bitmap   *)
(* region does not fit: header_size + glyph_count * glyph_byte_size        *)
(* exceeds the length of the input.                                        *)
C7_TruncatedDataFails ==
    (BLen(raw) >= 32 /\ RawMagic = MAGIC /\ ~BitmapFits) => font = NoFont

(* C8: load returns a Font with the header fields of the input for every   *)
(* input of at least 32 bytes with the magic, header_size within the       *)
(* input and the bitmap region within the input; header_size may differ    *)
(* from 32.  (Stated here for inputs of at most FILE_ZIZE bytes, the       *)
(* length load documents as its limit.)                                    *)
C8_LoadSucceeds ==
    (/\ pc # "start"
     /\ BLen(raw) >= 32 /\ BLen(raw) <= FILE_ZIZE /\ RawMagic = MAGIC
     /\ RawField(8) <= BLen(raw) /\ BitmapFits)
    => /\ font # NoFont
       /\ font.header.size = RawField(8)
       /\ font.header.length = RawField(16)
       /\ font.header.glyph_size = RawField(20)
       /\ font.header.glyph_height = RawField(24)
       /\ font.header.glyph_width = RawField(28)

(* C9: glyph_index of a codepoint of 128 or more is the lookup of its      *)
(* encoding in the reference mapping: the table split on 0xff, each chunk  *)
(* parsed as back-to-back sequences by their lead bytes, later chunks      *)
(* overwriting earlier ones, 63 on a miss.                                 *)
C9_MatchesReferenceMapping ==
    (TableLookup("glyph_index") /\ last.ok) =>
        last.ret = RefLookup(InputTable, encode_utf8(last.arg))

(* C10: in a loaded font with the unicode flag, the table region scanned   *)
(* is the input from header_size + glyph_count * glyph_byte_size to its    *)
(* end: glyph_size * length <= end <= length of the data array, and the    *)
(* region ends where the bytes of the input end.                           *)
C10_TableRegionIsInputTail ==
    (font # NoFont /\ font.header.flags.unicode) =>
        /\ ProductWithin(font.header.glyph_size, font.header.length, TableEnd(font))
        /\ TableEnd(font) <= BLen(font.data)
        /\ TableEnd(font) + font.header.size = BLen(raw)

====
